---- MODULE Spec2Model ----
(***************************************************************************)
(* A model of the orchestration tools of scripts/mcp-server.ts: the MCP    *)
(* tool handlers and the requests they send to the branching platform      *)
(* through execVers (`vers ...`) and to the local shell through execAsync. *)
(*                                                                         *)
(* Every awaited call of a handler is one step.  The platform's answer to  *)
(* a call is a nondeterministic choice; what the handler does with the     *)
(* answer is translated from the code.  `calls` is the sequence of         *)
(* requests the handler has sent so far, with the platform's answers.      *)
(***************************************************************************)
EXTENDS Integers, Sequences, FiniteSets, TLC

\* ------------------------------------------------------------------------
\* Bounds of the model
\* ------------------------------------------------------------------------

\* longest depends_on list of a service
MaxDeps == 2
\* most depends_on entries in a manifest, over all services
MaxEdges == 2
\* longest `services` argument of integration_up
MaxReq == 1
\* most branch variants of a test suite
MaxBranches == 2
\* most scenarios in a manifest, over all suites
MaxScenarios == 2
\* most before/after hooks in a manifest, over all suites
MaxHooks == 1
\* most calls of the chaos tools in a session
MaxChaosCalls == 2
\* most dimensions of a matrix
MaxDims == 2
\* most versions of a matrix dimension
MaxVersions == 2
\* most combinations of a matrix that is run
MaxCombos == 2

\* ------------------------------------------------------------------------
\* Names
\* ------------------------------------------------------------------------

\* Object.keys(manifest.services), in declaration order
KeyOrder == <<"a", "b", "c">>

\* the services the manifest declares
Declared == {KeyOrder[i] : i \in 1..Len(KeyOrder)}

\* a name no services entry has: an unknown service, a dangling reference
Undeclared == "x"

AllNames == Declared \cup {Undeclared}

SeqsUpTo(S, n) == UNION {[1..k -> S] : k \in 0..n}

Range(s) == {s[i] : i \in 1..Len(s)}

Contains(s, e) == \E i \in 1..Len(s) : s[i] = e

RECURSIVE SumLen(_, _)
SumLen(f, S) ==
  IF S = {} THEN 0
  ELSE LET k == CHOOSE k \in S : TRUE
       IN Len(f[k]) + SumLen(f, S \ {k})

\* manifest.services, reduced to what the launcher reads: depends_on of each
\* declared service (an absent depends_on reads as [], line 638)
Manifests ==
  {m \in [Declared -> SeqsUpTo(AllNames, MaxDeps)] : SumLen(m, Declared) <= MaxEdges}

\* ------------------------------------------------------------------------
\* State
\* ------------------------------------------------------------------------

VARIABLES
  manifestPresent, \* readManifest() finds and parses vers-integration.yaml
  services,        \* manifest.services: name -> depends_on
  calls,           \* the requests sent to the platform, in order, with answers
  upPc,            \* integration_up: where the handler is
  upReq,           \* integration_up: servicesToStart
  upCheckpoint,    \* integration_up: the checkpoint argument is given
  upI,             \* integration_up: index of the for loop over servicesToStart
  upUnmet,         \* integration_up: unmetDeps still to start
  started,         \* integration_up: started
  failed,          \* integration_up: failed
  upH,             \* integration_up: index of the for loop over started
  details,         \* integration_up: results
  upStatus,        \* integration_up: what the handler returned
  testsPresent,    \* manifest.tests is defined
  tests,           \* Object.entries(manifest.tests): the suites, in order
  tPc,             \* integration_test: where the handler is
  tParallel,       \* integration_test: the parallel argument
  tPrefix,         \* integration_test: prefix
  suitesToRun,     \* integration_test: Object.entries(suitesToRun)
  run,             \* integration_test: the runTest call of each suite
  results,         \* integration_test: results
  tStatus,         \* integration_test: how the handler ended
  tSummary,        \* integration_test: the summary of the output
  baseline,        \* platform: the baseline commit of the run
  head,            \* platform: the checked-out context commands run in
  parent,          \* platform: branch alias -> the context it was forked from
  ranIn,           \* platform: the processes run, each with the context it ran in
  branchReqs,      \* platform: the branch-create requests received
  chPc,            \* chaos tools: where the handler is
  chArgs,          \* chaos tools: the arguments of the call
  chCheckpoint,    \* chaos_inject: checkpointName
  chCalls,         \* chaos tools: the requests of the call, with their answers
  chReport,        \* chaos tools: what the last call returned
  chBefore,        \* platform: the services' status when the call began
  injections,      \* the chaos_inject calls that have returned
  now,             \* Date.now()
  status,          \* platform: service -> running, paused or stopped
  checkpoints,     \* platform: tag -> the state committed under it
  matrixPresent,   \* manifest.matrix is defined
  matrix,          \* Object.entries(manifest.matrix): the dimensions, in order
  mxPc,            \* integration_matrix: where the handler is
  mxFilter,        \* integration_matrix: the filter argument
  mxParallel,      \* integration_matrix: the parallel argument
  mxContinue,      \* integration_matrix: the continue_on_failure argument
  combinations,    \* integration_matrix: combinations
  mxRun,           \* integration_matrix: the runCombination call of each combination
  mxResults,       \* integration_matrix: results
  mxStatus,        \* integration_matrix: how the handler ended
  mxSummary,       \* integration_matrix: total_combinations and summary of the output
  mxAtFail,        \* the runCombination calls as the first failure left them
  eSuiteEnv,       \* runTest: suiteConfig.env
  eBranch,         \* runTest: the branch variant of the scenario, or none
  ePc,             \* runTest: whether the test command has been run
  eUsed            \* the variables the test command was run with

manifestVars == <<manifestPresent, services>>

testVars == <<testsPresent, tests, tPc, tParallel, tPrefix, suitesToRun, run,
              results, tStatus, tSummary, baseline, head, parent, ranIn,
              branchReqs>>

upVars == <<upPc, upReq, upCheckpoint, upI, upUnmet, started, failed, upH,
            details, upStatus>>

chaosVars == <<chPc, chArgs, chCheckpoint, chCalls, chReport, chBefore,
               injections, now, status, checkpoints>>

matrixVars == <<matrixPresent, matrix, mxPc, mxFilter, mxParallel, mxContinue,
                combinations, mxRun, mxResults, mxStatus, mxSummary, mxAtFail>>

envVars == <<eSuiteEnv, eBranch, ePc, eUsed>>

vars == <<manifestVars, calls, upVars, testVars, chaosVars, matrixVars, envVars>>

\* ------------------------------------------------------------------------
\* execVers and the platform's answers
\* ------------------------------------------------------------------------

\* What `vers service start <name>` can answer, as execVers returns it: stderr
\* is the words the command wrote there, or the error's message when the
\* command exits non-zero.  ok is the platform's own outcome.
StartResponses ==
  { [ok |-> TRUE,  stderr |-> <<>>],
    [ok |-> TRUE,  stderr |-> <<"service", "started">>],
    [ok |-> FALSE, stderr |-> <<"Command", "failed">>] }

\* What `vers service health <name> --wait` can answer on stdout
HealthResponses == {"healthy", "unhealthy"}

\* !stderr || stderr.includes("started")
StartSucceeded(stderr) == stderr = <<>> \/ Contains(stderr, "started")

Call(cmd, arg, ok) == [cmd |-> cmd, arg |-> arg, ok |-> ok]

\* ------------------------------------------------------------------------
\* integration_up
\* ------------------------------------------------------------------------

\* the `services` argument: omitted, or a list of names
UpServicesArgs ==
  {[given |-> FALSE, list |-> <<>>]}
    \cup {[given |-> TRUE, list |-> l] : l \in SeqsUpTo(AllNames, MaxReq)}

\* services || Object.keys(manifest.services)
ServicesToStart(arg) == IF arg.given THEN arg.list ELSE KeyOrder

\* deps.filter(d => !started.includes(d))
UnmetDeps(deps, st) == SelectSeq(deps, LAMBDA d : ~Contains(st, d))

\* checkpoint && failed.length === 0
ShouldCommit(ckpt, fl) == ckpt /\ Len(fl) = 0

\* failed.length === 0 ? "success" : "partial"
UpResultStatus(fl) == IF Len(fl) = 0 THEN "success" ELSE "partial"

UpInit ==
  /\ upPc = "idle"
  /\ upReq = <<>>
  /\ upCheckpoint = FALSE
  /\ upI = 1
  /\ upUnmet = <<>>
  /\ started = <<>>
  /\ failed = <<>>
  /\ upH = 1
  /\ details = <<>>
  /\ upStatus = "none"

\* the handler is called: readManifest, then the optional build
UpBegin ==
  /\ upPc = "idle"
  /\ \E arg \in UpServicesArgs, build \in BOOLEAN, ckpt \in BOOLEAN :
       IF ~manifestPresent
       THEN /\ upPc' = "done"
            /\ upStatus' = "error"
            /\ UNCHANGED <<upReq, upCheckpoint, details, calls>>
       ELSE /\ upReq' = ServicesToStart(arg)
            /\ upCheckpoint' = ckpt
            /\ upStatus' = "none"
            /\ IF build
               THEN /\ calls' = Append(calls, Call("build", "", TRUE))
                    /\ details' = Append(details, [step |-> "build", name |-> "", out |-> ""])
               ELSE UNCHANGED <<calls, details>>
            /\ upPc' = "loop"
  /\ UNCHANGED <<upI, upUnmet, started, failed, upH, manifestVars, testVars, chaosVars, matrixVars, envVars>>

\* if (!svcConfig) { failed.push(svc); continue; }
UpUnknownService ==
  /\ upPc = "loop"
  /\ upI <= Len(upReq)
  /\ upReq[upI] \notin Declared
  /\ failed' = Append(failed, upReq[upI])
  /\ upI' = upI + 1
  /\ UNCHANGED <<upPc, upReq, upCheckpoint, upUnmet, started, upH, details,
                 upStatus, calls, manifestVars, testVars, chaosVars, matrixVars, envVars>>

\* const unmetDeps = deps.filter(...)
UpCheckDeps ==
  /\ upPc = "loop"
  /\ upI <= Len(upReq)
  /\ upReq[upI] \in Declared
  /\ upUnmet' = UnmetDeps(services[upReq[upI]], started)
  /\ upPc' = "start"
  /\ UNCHANGED <<upReq, upCheckpoint, upI, started, failed, upH, details,
                 upStatus, calls, manifestVars, testVars, chaosVars, matrixVars, envVars>>

\* for (const dep of unmetDeps) { execVers(`service start ${dep}`) ... }
UpStartDep ==
  /\ upPc = "start"
  /\ upUnmet # <<>>
  /\ \E r \in StartResponses :
       /\ calls' = Append(calls, Call("start", Head(upUnmet), r.ok))
       /\ started' = IF StartSucceeded(r.stderr)
                     THEN Append(started, Head(upUnmet))
                     ELSE started
  /\ upUnmet' = Tail(upUnmet)
  /\ UNCHANGED <<upPc, upReq, upCheckpoint, upI, failed, upH, details,
                 upStatus, manifestVars, testVars, chaosVars, matrixVars, envVars>>

\* UpStartService with a failed start ending the loop over servicesToStart
UpStartServiceAborts ==
  /\ upPc = "start"
  /\ upUnmet = <<>>
  /\ \E r \in StartResponses :
       /\ calls' = Append(calls, Call("start", upReq[upI], r.ok))
       /\ IF StartSucceeded(r.stderr)
          THEN /\ started' = Append(started, upReq[upI])
               /\ upI' = upI + 1
               /\ UNCHANGED failed
          ELSE /\ failed' = Append(failed, upReq[upI])
               /\ upI' = Len(upReq) + 1
               /\ UNCHANGED started
  /\ upPc' = "loop"
  /\ UNCHANGED <<upReq, upCheckpoint, upUnmet, upH, details, upStatus,
                 manifestVars, testVars, chaosVars, matrixVars, envVars>>

\* execVers(`service start ${svc}`), then started.push or failed.push
UpStartService ==
  /\ upPc = "start"
  /\ upUnmet = <<>>
  /\ \E r \in StartResponses :
       /\ calls' = Append(calls, Call("start", upReq[upI], r.ok))
       /\ IF StartSucceeded(r.stderr)
          THEN /\ started' = Append(started, upReq[upI])
               /\ UNCHANGED failed
          ELSE /\ failed' = Append(failed, upReq[upI])
               /\ UNCHANGED started
  /\ upI' = upI + 1
  /\ upPc' = "loop"
  /\ UNCHANGED <<upReq, upCheckpoint, upUnmet, upH, details, upStatus,
                 manifestVars, testVars, chaosVars, matrixVars, envVars>>

\* the loop over servicesToStart is over: on to the health checks
UpStartsDone ==
  /\ upPc = "loop"
  /\ upI > Len(upReq)
  /\ upPc' = "health"
  /\ upH' = 1
  /\ UNCHANGED <<upReq, upCheckpoint, upI, upUnmet, started, failed, details,
                 upStatus, calls, manifestVars, testVars, chaosVars, matrixVars, envVars>>

\* for (const svc of started) { execVers(`service health ${svc} --wait`) ... }
UpHealth ==
  /\ upPc = "health"
  /\ upH <= Len(started)
  /\ \E h \in HealthResponses :
       /\ calls' = Append(calls, Call("health", started[upH], h = "healthy"))
       /\ details' = Append(details, [step |-> "health", name |-> started[upH], out |-> h])
  /\ upH' = upH + 1
  /\ UNCHANGED <<upPc, upReq, upCheckpoint, upI, upUnmet, started, failed,
                 upStatus, manifestVars, testVars, chaosVars, matrixVars, envVars>>

\* if (checkpoint && failed.length === 0) { execVers(`commit --tag ...`) ... }
\* and the return
UpFinish ==
  /\ upPc = "health"
  /\ upH > Len(started)
  /\ IF ShouldCommit(upCheckpoint, failed)
     THEN \E ok \in BOOLEAN :
            /\ calls' = Append(calls, Call("commit", "checkpoint", ok))
            /\ details' = Append(details, [step |-> "checkpoint", name |-> "checkpoint", out |-> "created"])
     ELSE UNCHANGED <<calls, details>>
  /\ upStatus' = UpResultStatus(failed)
  /\ upPc' = "done"
  /\ UNCHANGED <<upReq, upCheckpoint, upI, upUnmet, started, failed, upH,
                 manifestVars, testVars, chaosVars, matrixVars, envVars>>

UpNext ==
  \/ UpBegin
  \/ UpUnknownService
  \/ UpCheckDeps
  \/ UpStartDep
  \/ UpStartService
  \/ UpStartsDone
  \/ UpHealth
  \/ UpFinish


\* ------------------------------------------------------------------------
\* integration_test
\* ------------------------------------------------------------------------

\* keys of manifest.tests
SuiteNames == {"s", "s-v"}

\* names of branch variants
BranchNames == {"v", "w"}

\* a suite argument that is no key of manifest.tests
UndefinedSuite == "zz"

\* the context the run starts in: the environment integration_up left
MainContext == "main"

\* TestBranch, reduced to its name and whether it has a before / after hook
BranchShapes == [name : BranchNames, before : BOOLEAN, after : BOOLEAN]

BranchHooks(bs) ==
  Cardinality({j \in 1..Len(bs) : bs[j].before})
    + Cardinality({j \in 1..Len(bs) : bs[j].after})

\* TestSuite.branches
BranchLists ==
  {bs \in SeqsUpTo(BranchShapes, MaxBranches) :
     Len(bs) <= MaxScenarios /\ BranchHooks(bs) <= MaxHooks}

\* TestSuite, with its key in manifest.tests
Suite(n, bs) == [name |-> n, branches |-> bs]

\* suiteConfig.branches && suiteConfig.branches.length > 0
HasVariants(su) == Len(su.branches) > 0

ScenarioCount(su) == IF HasVariants(su) THEN Len(su.branches) ELSE 1

HookCount(su) == BranchHooks(su.branches)

RECURSIVE ScenarioTotal(_)
ScenarioTotal(m) ==
  IF m = <<>> THEN 0 ELSE ScenarioCount(Head(m)) + ScenarioTotal(Tail(m))

RECURSIVE HookTotal(_)
HookTotal(m) ==
  IF m = <<>> THEN 0 ELSE HookCount(Head(m)) + HookTotal(Tail(m))

\* manifest.tests: an object, so every suite name is the key of one suite
TestManifests ==
  {m \in {<<>>}
          \cup {<<Suite(n, bs)>> : n \in SuiteNames, bs \in BranchLists}
          \cup {<<Suite(n1, b1), Suite(n2, b2)>> :
                  n1 \in SuiteNames, n2 \in SuiteNames,
                  b1 \in BranchLists, b2 \in BranchLists} :
     /\ \A i, j \in 1..Len(m) : i # j => m[i].name # m[j].name
     /\ ScenarioTotal(m) <= MaxScenarios
     /\ HookTotal(m) <= MaxHooks}

\* the suite argument: omitted, or a name
SuiteArgs ==
  {[given |-> FALSE, name |-> ""]}
    \cup {[given |-> TRUE, name |-> n] : n \in SuiteNames \cup {UndefinedSuite}}

\* the branch_prefix argument: omitted (""), or a prefix
PrefixArgs == {"", "p"}

\* branch_prefix || "test"
Prefix(arg) == IF arg = "" THEN "test" ELSE arg

\* `${prefix}-${suiteName}-${branch.name}`
VariantAlias(prefix, suite, branch) == prefix \o "-" \o suite \o "-" \o branch

\* `${prefix}-${suiteName}`
SingleAlias(prefix, suite) == prefix \o "-" \o suite

\* Scenarios with the single run reported under the suite's name
ScenariosSuiteName(prefix, su) ==
  IF HasVariants(su)
  THEN [j \in 1..Len(su.branches) |->
          [name   |-> su.branches[j].name,
           alias  |-> VariantAlias(prefix, su.name, su.branches[j].name),
           before |-> su.branches[j].before,
           after  |-> su.branches[j].after]]
  ELSE << [name   |-> su.name,
           alias  |-> SingleAlias(prefix, su.name),
           before |-> FALSE,
           after  |-> FALSE] >>

\* the scenarios runTest goes through for a suite: its branch variants, or the
\* single run, whose TestResult carries branchAlias as its branch
Scenarios(prefix, su) ==
  IF HasVariants(su)
  THEN [j \in 1..Len(su.branches) |->
          [name   |-> su.branches[j].name,
           alias  |-> VariantAlias(prefix, su.name, su.branches[j].name),
           before |-> su.branches[j].before,
           after  |-> su.branches[j].after]]
  ELSE << [name   |-> SingleAlias(prefix, su.name),
           alias  |-> SingleAlias(prefix, su.name),
           before |-> FALSE,
           after  |-> FALSE] >>

\* suite ? { [suite]: manifest.tests[suite] } : manifest.tests , as the entries
\* runTest is called with: an undefined suiteConfig has no scenarios
SuitesToRun(arg, prefix) ==
  IF arg.given
  THEN LET hit == SelectSeq(tests, LAMBDA su : su.name = arg.name)
       IN IF hit = <<>>
          THEN <<[suite |-> arg.name, defined |-> FALSE, scen |-> <<>>]>>
          ELSE <<[suite |-> arg.name, defined |-> TRUE,
                  scen |-> Scenarios(prefix, hit[1])]>>
  ELSE [k \in 1..Len(tests) |->
          [suite |-> tests[k].name, defined |-> TRUE,
           scen |-> Scenarios(prefix, tests[k])]]

Tasks == 1..Len(run)

\* the scenario task k is at
Scn(k) == suitesToRun[k].scen[run[k].b]

AllDone(r) == \A k \in 1..Len(r) : r[k].pc = "done"

\* Flat keeping only the results of the first runTest
FlatFirst(r) == IF r = <<>> THEN <<>> ELSE Head(r).res

RECURSIVE Flat(_)
\* allResults.flat()
Flat(r) == IF r = <<>> THEN <<>> ELSE Head(r).res \o Flat(Tail(r))

\* CountStatus over the set of results: equal results are counted once
CountStatusDistinct(res, st) ==
  Cardinality({res[i] : i \in {j \in 1..Len(res) : res[j].status = st}})

\* results.filter(r => r.status === st).length
CountStatus(res, st) == Cardinality({i \in 1..Len(res) : res[i].status = st})

\* summary: { total: results.length, passed, failed }
Summary(res) ==
  [total |-> Len(res), passed |-> CountStatus(res, "passed"),
   failed |-> CountStatus(res, "failed")]

TestInit ==
  /\ tPc = "idle"
  /\ tParallel = FALSE
  /\ tPrefix = "test"
  /\ suitesToRun = <<>>
  /\ run = <<>>
  /\ results = <<>>
  /\ tStatus = "none"
  /\ tSummary = Summary(<<>>)
  /\ baseline = "none"
  /\ head = MainContext
  /\ parent = <<>>
  /\ ranIn = {}
  /\ branchReqs = {}

\* FirstPc with every runTest called at once in both modes
FirstPcAllAtOnce(entries, k, par) ==
  IF ~entries[k].defined THEN "threw" ELSE "branch"

\* where runTest of entry k stands when the dispatch reaches its first await
FirstPc(entries, k, par) ==
  IF ~entries[k].defined THEN "threw"
  ELSE IF par \/ k = 1 THEN "branch"
  ELSE "wait"

\* TestBegin without the await on the baseline commit: runTest is called while
\* the commit is still in flight
TestBeginNoAwait ==
  /\ tPc = "idle"
  /\ \E sarg \in SuiteArgs, par \in BOOLEAN, parg \in PrefixArgs :
       IF ~manifestPresent \/ ~testsPresent
       THEN /\ tPc' = "done"
            /\ tStatus' = "error" /\ UNCHANGED tSummary
            /\ UNCHANGED <<tParallel, tPrefix, suitesToRun, baseline, run>>
       ELSE LET entries == SuitesToRun(sarg, Prefix(parg))
            IN /\ tParallel' = par
               /\ tPrefix' = Prefix(parg)
               /\ suitesToRun' = entries
               /\ baseline' = "pending"
               /\ run' = [k \in 1..Len(entries) |->
                            [pc |-> FirstPc(entries, k, par), b |-> 1,
                             ready |-> FALSE, res |-> <<>>]]
               /\ tPc' = "running"
               /\ UNCHANGED <<tStatus, tSummary>>
  /\ UNCHANGED <<testsPresent, tests, results, head, parent, ranIn,
                 branchReqs, manifestVars, calls, upVars, chaosVars, matrixVars, envVars>>

\* the handler is called: readManifest, suitesToRun, prefix, and the baseline
\* commit is sent
TestBegin ==
  /\ tPc = "idle"
  /\ \E sarg \in SuiteArgs, par \in BOOLEAN, parg \in PrefixArgs :
       IF ~manifestPresent \/ ~testsPresent
       THEN /\ tPc' = "done"
            /\ tStatus' = "error" /\ UNCHANGED tSummary
            /\ UNCHANGED <<tParallel, tPrefix, suitesToRun, baseline>>
       ELSE /\ tParallel' = par
            /\ tPrefix' = Prefix(parg)
            /\ suitesToRun' = SuitesToRun(sarg, Prefix(parg))
            /\ baseline' = "pending"
            /\ tPc' = "commit"
            /\ UNCHANGED <<tStatus, tSummary>>
  /\ UNCHANGED <<testsPresent, tests, run, results, head, parent, ranIn,
                 branchReqs, manifestVars, calls, upVars, chaosVars, matrixVars, envVars>>

\* the baseline commit has returned (execVers swallows its failure); then
\* parallel: every runTest is called; sequential: the first one
TestCommitted ==
  /\ tPc = "commit"
  /\ \E ok \in BOOLEAN : baseline' = IF ok THEN "committed" ELSE "failed"
  /\ run' = [k \in 1..Len(suitesToRun) |->
               [pc |-> FirstPc(suitesToRun, k, tParallel), b |-> 1, ready |-> FALSE,
                res |-> <<>>]]
  /\ IF \E k \in 1..Len(suitesToRun) : ~suitesToRun[k].defined
     THEN tPc' = "done" /\ tStatus' = "rejected" /\ UNCHANGED tSummary
     ELSE IF suitesToRun = <<>>
     THEN tPc' = "done" /\ tStatus' = "returned" /\ tSummary' = Summary(results)
     ELSE tPc' = "running" /\ UNCHANGED <<tStatus, tSummary>>
  /\ UNCHANGED <<testsPresent, tests, tParallel, tPrefix, suitesToRun, results,
                 head, parent, ranIn, branchReqs, manifestVars, calls, upVars, chaosVars, matrixVars, envVars>>

\* What a step of runTest k that leaves the task as t does to the handler:
\* a throw rejects the handler; sequential: a finished suite's results are
\* pushed and the next runTest is called; parallel: Promise.all resolves when
\* every runTest has, and the results are pushed then.
Advance(k, t) ==
  LET r1 == [run EXCEPT ![k] = t]
      r2 == IF ~tParallel /\ t.pc = "done" /\ k < Len(run)
            THEN [r1 EXCEPT ![k + 1].pc = "branch"]
            ELSE r1
  IN /\ run' = r2
     /\ IF tPc # "running"
        THEN UNCHANGED <<tPc, tStatus, results, tSummary>>
        ELSE IF t.pc = "threw"
        THEN tPc' = "done" /\ tStatus' = "rejected" /\ UNCHANGED <<results, tSummary>>
        ELSE IF tParallel
        THEN IF AllDone(r2)
             THEN tPc' = "done" /\ tStatus' = "returned" /\ results' = Flat(r2)
                  /\ tSummary' = Summary(Flat(r2))
             ELSE UNCHANGED <<tPc, tStatus, results, tSummary>>
        ELSE IF t.pc = "done"
        THEN /\ results' = results \o t.res
             /\ IF k = Len(run)
                THEN tPc' = "done" /\ tStatus' = "returned"
                     /\ tSummary' = Summary(results \o t.res)
                ELSE UNCHANGED <<tPc, tStatus, tSummary>>
        ELSE UNCHANGED <<tPc, tStatus, results, tSummary>>

\* the end of a scenario: the next branch variant, or the end of runTest
AfterScenario(k, t) ==
  IF t.b < Len(suitesToRun[k].scen)
  THEN [t EXCEPT !.b = @ + 1, !.pc = "branch", !.ready = FALSE]
  ELSE [t EXCEPT !.pc = "done"]

\* a process runTest k has run for its current scenario: the hook or command,
\* the context it ran in, and whether it exited with code 0
Ran(k, kind, ok) ==
  [suite |-> suitesToRun[k].suite, idx |-> run[k].b, branch |-> Scn(k).name,
   alias |-> Scn(k).alias, kind |-> kind, ctx |-> head, ready |-> run[k].ready,
   ok |-> ok]

\* a function as f, with x mapped to v
Put(f, x, v) == [y \in DOMAIN f \cup {x} |-> IF y = x THEN v ELSE f[y]]

\* execVers(`branch --alias ${branchAlias}`): the platform forks the
\* checked-out context, or fails
TaskBranch(k) ==
  /\ run[k].pc = "branch"
  /\ branchReqs' = branchReqs \cup {[alias |-> Scn(k).alias, baseline |-> baseline]}
  /\ \E ok \in BOOLEAN :
       /\ parent' = IF ok THEN Put(parent, Scn(k).alias, head) ELSE parent
       /\ Advance(k, [run[k] EXCEPT !.pc = "checkout", !.ready = ok])
  /\ UNCHANGED <<testsPresent, tests, tParallel, tPrefix, suitesToRun, baseline,
                 head, ranIn, manifestVars, calls, upVars, chaosVars, matrixVars, envVars>>

\* execVers(`checkout ${branchAlias}`): the platform switches the checked-out
\* context to the branch, or fails
TaskCheckout(k) ==
  /\ run[k].pc = "checkout"
  /\ \E ok \in BOOLEAN :
       /\ ok => Scn(k).alias \in DOMAIN parent
       /\ head' = IF ok THEN Scn(k).alias ELSE head
       /\ Advance(k, [run[k] EXCEPT !.pc = IF Scn(k).before THEN "before" ELSE "cmd",
                                    !.ready = @ /\ ok])
  /\ UNCHANGED <<testsPresent, tests, tParallel, tPrefix, suitesToRun, baseline,
                 parent, ranIn, branchReqs, manifestVars, calls, upVars, chaosVars, matrixVars, envVars>>

\* if (branch.before) await execAsync(branch.before): a failing hook throws
TaskBefore(k) ==
  /\ run[k].pc = "before"
  /\ \E ok \in BOOLEAN :
       /\ ranIn' = ranIn \cup {Ran(k, "before", ok)}
       /\ Advance(k, [run[k] EXCEPT !.pc = IF ok THEN "cmd" ELSE "threw"])
  /\ UNCHANGED <<testsPresent, tests, tParallel, tPrefix, suitesToRun, baseline,
                 head, parent, branchReqs, manifestVars, calls, upVars, chaosVars, matrixVars, envVars>>

\* Result with a scenario passing only if no earlier scenario of its suite
\* has failed
ResultSticky(k, exit0) ==
  [suite |-> suitesToRun[k].suite, branch |-> Scn(k).name,
   status |-> IF exit0 /\ \A j \in 1..Len(run[k].res) : run[k].res[j].status = "passed"
              THEN "passed" ELSE "failed"]

\* the TestResult of the current scenario of runTest k: "passed" when the
\* command resolves, "failed" in the catch
Result(k, exit0) ==
  [suite |-> suitesToRun[k].suite, branch |-> Scn(k).name,
   status |-> IF exit0 THEN "passed" ELSE "failed"]

\* the test command: suiteResults.push passed, or failed in the catch
TaskCommand(k) ==
  /\ run[k].pc = "cmd"
  /\ \E exit0 \in BOOLEAN :
       LET t == [run[k] EXCEPT !.res = Append(@, Result(k, exit0))]
       IN /\ ranIn' = ranIn \cup {Ran(k, "command", exit0)}
          /\ Advance(k, IF Scn(k).after THEN [t EXCEPT !.pc = "after"]
                        ELSE AfterScenario(k, t))
  /\ UNCHANGED <<testsPresent, tests, tParallel, tPrefix, suitesToRun, baseline,
                 head, parent, branchReqs, manifestVars, calls, upVars, chaosVars, matrixVars, envVars>>

\* if (branch.after) await execAsync(branch.after): a failing hook throws
TaskAfter(k) ==
  /\ run[k].pc = "after"
  /\ \E ok \in BOOLEAN :
       /\ ranIn' = ranIn \cup {Ran(k, "after", ok)}
       /\ Advance(k, IF ok THEN AfterScenario(k, run[k])
                     ELSE [run[k] EXCEPT !.pc = "threw"])
  /\ UNCHANGED <<testsPresent, tests, tParallel, tPrefix, suitesToRun, baseline,
                 head, parent, branchReqs, manifestVars, calls, upVars, chaosVars, matrixVars, envVars>>

TestNext ==
  \/ TestBegin
  \/ TestCommitted
  \/ \E k \in Tasks : TaskBranch(k)
  \/ \E k \in Tasks : TaskCheckout(k)
  \/ \E k \in Tasks : TaskBefore(k)
  \/ \E k \in Tasks : TaskCommand(k)
  \/ \E k \in Tasks : TaskAfter(k)

\* ------------------------------------------------------------------------
\* chaos_inject and chaos_recover
\* ------------------------------------------------------------------------

\* the services on the platform that chaos targets
ChaosTargets == {"a", "b"}

\* z.enum([...]) of chaos_inject's action
ChaosActions ==
  {"kill", "pause", "network-isolate", "cpu-stress", "memory-stress", "disk-fill"}

\* the resource-exhaustion actions
StressActions == {"cpu-stress", "memory-stress", "disk-fill"}

\* the intensity argument: omitted, or a number (the schema sets no range)
IntensityArgs ==
  {[given |-> FALSE, v |-> 0]} \cup {[given |-> TRUE, v |-> v] : v \in {0, 50, 101}}

\* the duration argument: omitted (""), or a duration
DurationArgs == {"", "5m"}

\* intensity || 80 of cpu-stress and memory-stress
DefaultIntensity == 80

\* intensity || 95 of disk-fill
DefaultDiskPercent == 95

\* a || d on an optional number: undefined and 0 are falsy
NumOr(a, d) == IF a.given /\ a.v # 0 THEN a.v ELSE d

\* a || d on an optional string: undefined and "" are falsy
StrOr(a, d) == IF a # "" THEN a ELSE d

\* `pre-chaos-${service}-${Date.now()}`
CheckpointName(service, ts) == <<"pre-chaos", service, ts>>

\* a tag no commit has made
UnknownTag == <<"no-such-checkpoint">>

\* a request to the platform and its answer: "pending" until it returns
Req(cmd, service, tag, kind, intensity, timeout) ==
  [cmd |-> cmd, service |-> service, tag |-> tag, kind |-> kind,
   intensity |-> intensity, timeout |-> timeout, state |-> "pending"]

\* the switch over action: chaosCommand
ChaosCommand(service, action, duration, intensity) ==
  CASE action = "kill" -> Req("stop", service, <<>>, action, 0, "")
    [] action = "pause" -> Req("pause", service, <<>>, action, 0, "")
    [] action = "network-isolate" -> Req("execute", service, <<>>, action, 0, "")
    [] action = "cpu-stress" ->
         Req("execute", service, <<>>, action, NumOr(intensity, DefaultIntensity),
             StrOr(duration, "30s"))
    [] action = "memory-stress" ->
         Req("execute", service, <<>>, action, NumOr(intensity, DefaultIntensity),
             StrOr(duration, "30s"))
    [] action = "disk-fill" ->
         Req("execute", service, <<>>, action, NumOr(intensity, DefaultDiskPercent), "")

\* the answer to request i of the call has arrived
Answered(cs, i, ok) == [cs EXCEPT ![i].state = IF ok THEN "ok" ELSE "failed"]

\* platform: what a chaos command that succeeded does to the services' status
Effect(st, req) ==
  CASE req.cmd = "stop" -> [st EXCEPT ![req.service] = "stopped"]
    [] req.cmd = "pause" -> [st EXCEPT ![req.service] = "paused"]
    [] req.cmd = "restart" -> [st EXCEPT ![req.service] = "running"]
    [] req.cmd = "rollback" -> checkpoints[req.tag]
    [] OTHER -> st

ChaosInit ==
  /\ chPc = "idle"
  /\ chArgs = [tool |-> "none"]
  /\ chCheckpoint = <<>>
  /\ chCalls = <<>>
  /\ chReport = [status |-> "none"]
  /\ chBefore = status
  /\ injections = {}
  /\ now = 0
  /\ checkpoints = <<>>

\* ChaosInject sending the chaos command without awaiting the commit
ChaosInjectNoAwait ==
  /\ chPc = "idle"
  /\ now < MaxChaosCalls
  /\ \E service \in ChaosTargets, action \in ChaosActions,
        duration \in DurationArgs, intensity \in IntensityArgs :
       /\ chArgs' = [tool |-> "inject", service |-> service, action |-> action,
                     duration |-> duration, intensity |-> intensity]
       /\ chCheckpoint' = CheckpointName(service, now + 1)
       /\ chCalls' = <<Req("commit", service, CheckpointName(service, now + 1),
                           "", 0, ""),
                       ChaosCommand(service, action, duration, intensity)>>
  /\ now' = now + 1
  /\ chBefore' = status
  /\ chPc' = "commit"
  /\ UNCHANGED <<chReport, injections, status, checkpoints, manifestVars, calls,
                 upVars, testVars, matrixVars, envVars>>

\* chaos_inject is called: checkpointName, and the commit is sent
ChaosInject ==
  /\ chPc = "idle"
  /\ now < MaxChaosCalls
  /\ \E service \in ChaosTargets, action \in ChaosActions,
        duration \in DurationArgs, intensity \in IntensityArgs :
       /\ chArgs' = [tool |-> "inject", service |-> service, action |-> action,
                     duration |-> duration, intensity |-> intensity]
       /\ chCheckpoint' = CheckpointName(service, now + 1)
       /\ chCalls' = <<Req("commit", service, CheckpointName(service, now + 1),
                           "", 0, "")>>
  /\ now' = now + 1
  /\ chBefore' = status
  /\ chPc' = "commit"
  /\ UNCHANGED <<chReport, injections, status, checkpoints, manifestVars, calls,
                 upVars, testVars, matrixVars, envVars>>

\* the commit has returned (execVers swallows its failure): the switch builds
\* chaosCommand and the command is sent
ChaosInjectCommitted ==
  /\ chPc = "commit"
  /\ \E ok \in BOOLEAN :
       /\ checkpoints' = IF ok THEN Put(checkpoints, chCheckpoint, status)
                         ELSE checkpoints
       /\ chCalls' = Append(Answered(chCalls, 1, ok),
                            ChaosCommand(chArgs.service, chArgs.action,
                                         chArgs.duration, chArgs.intensity))
  /\ chPc' = "action"
  /\ UNCHANGED <<chArgs, chCheckpoint, chReport, chBefore, injections, now,
                 status, manifestVars, calls, upVars, testVars, matrixVars, envVars>>

\* the chaos command has returned: the platform has applied it or has failed,
\* and the handler returns its report
ChaosInjectActed ==
  /\ chPc = "action"
  /\ \E ok \in BOOLEAN :
       /\ status' = IF ok THEN Effect(status, chCalls[2]) ELSE status
       /\ chCalls' = Answered(chCalls, 2, ok)
       /\ injections' = injections \cup
            {[tag |-> chCheckpoint, service |-> chArgs.service,
              action |-> chArgs.action,
              wasRunning |-> chBefore[chArgs.service] = "running",
              applied |-> ok]}
  /\ chReport' = [status |-> "injected", service |-> chArgs.service,
                  action |-> chArgs.action,
                  duration |-> StrOr(chArgs.duration, "permanent"),
                  rollback_checkpoint |-> chCheckpoint]
  /\ chPc' = "idle"
  /\ UNCHANGED <<chArgs, chCheckpoint, chBefore, now, checkpoints, manifestVars,
                 calls, upVars, testVars, matrixVars, envVars>>

\* the checkpoint argument of chaos_recover: omitted (<<>>), a tag an earlier
\* chaos_inject reported, or a tag that names nothing
CheckpointArgs == {<<>>, UnknownTag} \cup {inj.tag : inj \in injections}

\* the service argument of chaos_recover: omitted (""), or a service
ServiceArgs == {""} \cup ChaosTargets

\* RecoverRequest rolling back to the last pre-chaos checkpoint when only a
\* service is named
RecoverRequestRollsBack(checkpoint, service) ==
  IF checkpoint # <<>>
  THEN <<Req("rollback", "", checkpoint, "", 0, "")>>
  ELSE IF service # ""
  THEN <<Req("rollback", "", chCheckpoint, "", 0, "")>>
  ELSE <<>>

\* if (checkpoint) rollback; if (service) service restart; else nothing
RecoverRequest(checkpoint, service) ==
  IF checkpoint # <<>>
  THEN <<Req("rollback", "", checkpoint, "", 0, "")>>
  ELSE IF service # ""
  THEN <<Req("restart", service, <<>>, "", 0, "")>>
  ELSE <<>>

\* ChaosRecover sending the restart as well when a checkpoint and a service
\* are both given
ChaosRecoverAlsoRestarts ==
  /\ chPc = "idle"
  /\ now < MaxChaosCalls
  /\ \E checkpoint \in CheckpointArgs, service \in ServiceArgs :
       LET reqs == RecoverRequest(checkpoint, "") \o RecoverRequest(<<>>, service)
       IN /\ chArgs' = [tool |-> "recover", checkpoint |-> checkpoint,
                        service |-> service]
          /\ chCalls' = reqs
          /\ IF reqs = <<>>
             THEN chPc' = "idle" /\ chReport' = [status |-> "error"]
             ELSE chPc' = "recover" /\ UNCHANGED chReport
  /\ now' = now + 1
  /\ chBefore' = status
  /\ UNCHANGED <<chCheckpoint, injections, status, checkpoints, manifestVars,
                 calls, upVars, testVars, matrixVars, envVars>>

\* chaos_recover is called: the rollback or the restart is sent, or the
\* handler returns its error
ChaosRecover ==
  /\ chPc = "idle"
  /\ now < MaxChaosCalls
  /\ \E checkpoint \in CheckpointArgs, service \in ServiceArgs :
       /\ chArgs' = [tool |-> "recover", checkpoint |-> checkpoint,
                     service |-> service]
       /\ chCalls' = RecoverRequest(checkpoint, service)
       /\ IF RecoverRequest(checkpoint, service) = <<>>
          THEN chPc' = "idle" /\ chReport' = [status |-> "error"]
          ELSE chPc' = "recover" /\ UNCHANGED chReport
  /\ now' = now + 1
  /\ chBefore' = status
  /\ UNCHANGED <<chCheckpoint, injections, status, checkpoints, manifestVars,
                 calls, upVars, testVars, matrixVars, envVars>>

\* the rollback or the restart has returned: the platform has done it or has
\* failed (a rollback to a tag that names nothing fails), and the handler
\* returns its report
ChaosRecovered ==
  /\ chPc = "recover"
  /\ \E ok \in BOOLEAN :
       /\ (ok /\ chCalls[1].cmd = "rollback") => chCalls[1].tag \in DOMAIN checkpoints
       /\ status' = IF ok THEN Effect(status, chCalls[1]) ELSE status
       /\ chCalls' = Answered(chCalls, 1, ok)
  /\ chReport' = [status |-> "recovered", action |-> chCalls[1].cmd,
                  checkpoint |-> chCalls[1].tag, service |-> chCalls[1].service]
  /\ chPc' = "idle"
  /\ UNCHANGED <<chArgs, chCheckpoint, chBefore, injections, now, checkpoints,
                 manifestVars, calls, upVars, testVars, matrixVars, envVars>>

ChaosNext ==
  \/ ChaosInject
  \/ ChaosInjectCommitted
  \/ ChaosInjectActed
  \/ ChaosRecover
  \/ ChaosRecovered

\* ------------------------------------------------------------------------
\* integration_matrix
\* ------------------------------------------------------------------------

\* names of matrix dimensions, in sorted order
DimOrder == <<"pg", "redis">>

DimNames == Range(DimOrder)

\* a filter key that is no dimension of the matrix
UnknownDim == "node"

\* A version as yaml.parse returns it: the number of `[6, 7]` or the string of
\* `["7"]`, with the text a template literal prints for it
Version(t, text) == [t |-> t, text |-> text]

Versions ==
  {Version("num", "6"), Version("num", "7"), Version("num", "8"), Version("str", "7")}

\* a === b
StrictEq(a, b) == a.t = b.t /\ a.text = b.text

\* sequences over S without repetition, of length at most n
DistinctSeqs(S, n) ==
  {q \in SeqsUpTo(S, n) : \A i, j \in 1..Len(q) : i # j => q[i] # q[j]}

VersionLists == DistinctSeqs(Versions, MaxVersions)

\* manifest.matrix: every dimension name is the key of one list of versions
Matrices ==
  {m \in SeqsUpTo([key : DimNames, versions : VersionLists], MaxDims) :
     \A i, j \in 1..Len(m) : i # j => m[i].key # m[j].key}

\* the filter argument, z.record(z.string()): omitted, or strings by key
Filters ==
  {[given |-> FALSE, key |-> "", value |-> ""]}
    \cup {[given |-> TRUE, key |-> k, value |-> v] :
            k \in DimNames \cup {UnknownDim}, v \in {"", "6", "7"}}

\* versions as the documentation writes them: `pg: [6, 7, 8]`
DocVersions == <<Version("num", "6"), Version("num", "7"), Version("num", "8")>>

\* the matrices that are run to the end: one dimension with up to MaxCombos
\* versions, alone or after a dimension with one version
RunMatrices ==
  {<<>>}
    \cup {<<[key |-> "pg", versions |-> SubSeq(DocVersions, 1, n)]>> : n \in 0..MaxCombos}
    \cup {<<[key |-> "redis", versions |-> <<Version("num", "7")>>],
            [key |-> "pg", versions |-> SubSeq(DocVersions, 1, n)]>> : n \in 1..MaxCombos}

\* Skipped with the filter never consulted
SkippedNever(flt, key, version) == FALSE

\* filter && filter[key] && filter[key] !== version
Skipped(flt, key, version) ==
  /\ flt.given
  /\ flt.key = key
  /\ flt.value # ""
  /\ ~StrictEq(Version("str", flt.value), version)

\* current[key] = version: an existing key keeps its place, a new one is last
SetKey(current, key, version) ==
  IF \E i \in 1..Len(current) : current[i].key = key
  THEN [i \in 1..Len(current) |->
          IF current[i].key = key THEN [key |-> key, version |-> version]
          ELSE current[i]]
  ELSE Append(current, [key |-> key, version |-> version])

RECURSIVE Generate(_, _, _, _)
RECURSIVE GenerateLoop(_, _, _, _, _)

\* generate(index, current): the combinations it pushes, and current as it
\* leaves it
Generate(mx, flt, index, current) ==
  IF index = Len(mx) + 1
  THEN [out |-> <<current>>, cur |-> current]
  ELSE GenerateLoop(mx, flt, index, 1, current)

\* for (const version of versions), from the j-th version on
GenerateLoop(mx, flt, index, j, current) ==
  IF j > Len(mx[index].versions)
  THEN [out |-> <<>>, cur |-> current]
  ELSE IF Skipped(flt, mx[index].key, mx[index].versions[j])
  THEN GenerateLoop(mx, flt, index, j + 1, current)
  ELSE LET deeper == Generate(mx, flt, index + 1,
                              SetKey(current, mx[index].key, mx[index].versions[j]))
           rest == GenerateLoop(mx, flt, index, j + 1, deeper.cur)
       IN [out |-> deeper.out \o rest.out, cur |-> rest.cur]

\* Combinations pushing current itself, not a copy of it: every entry is the
\* one object, as the last assignment left it
CombinationsShared(mx, flt) ==
  LET r == Generate(mx, flt, 1, <<>>)
  IN [i \in 1..Len(r.out) |-> r.cur]

\* generate(0, {}): combinations
Combinations(mx, flt) == Generate(mx, flt, 1, <<>>).out

RECURSIVE Join(_)
\* parts.join("-")
Join(parts) ==
  IF parts = <<>> THEN ""
  ELSE IF Len(parts) = 1 THEN parts[1]
  ELSE parts[1] \o "-" \o Join(Tail(parts))

\* Object.entries(combo).map(([k, v]) => `${k}${v}`).join("-")
ComboName(combo) ==
  Join([i \in 1..Len(combo) |-> combo[i].key \o combo[i].version.text])

\* `matrix-${name}`
MatrixAlias(combo) == "matrix-" \o ComboName(combo)

\* total_combinations: combinations.length, summary: { passed, failed }
MxSummary(combos, res) ==
  [total_combinations |-> Len(combos), passed |-> CountStatus(res, "passed"),
   failed |-> CountStatus(res, "failed")]

MatrixInit ==
  /\ mxPc = "idle"
  /\ mxFilter = [given |-> FALSE, key |-> "", value |-> ""]
  /\ mxParallel = FALSE
  /\ mxContinue = FALSE
  /\ combinations = <<>>
  /\ mxRun = <<>>
  /\ mxResults = <<>>
  /\ mxStatus = "none"
  /\ mxSummary = MxSummary(<<>>, <<>>)
  /\ mxAtFail = <<>>

\* where runCombination of combination k stands when the dispatch reaches its
\* first await
MxFirstPc(k, par) == IF par \/ k = 1 THEN "branch" ELSE "wait"

\* the handler is called: readManifest, generate(0, {}), and runCombination is
\* called for every combination (parallel) or for the first one
MatrixBegin ==
  /\ mxPc = "idle"
  /\ \E flt \in Filters, par \in BOOLEAN, cont \in BOOLEAN :
       IF ~manifestPresent \/ ~matrixPresent
       THEN /\ mxPc' = "done"
            /\ mxStatus' = "error" /\ UNCHANGED mxSummary
            /\ UNCHANGED <<mxFilter, mxParallel, mxContinue, combinations, mxRun>>
       ELSE LET combos == Combinations(matrix, flt)
            IN /\ mxFilter' = flt
               /\ mxParallel' = par
               /\ mxContinue' = cont
               /\ combinations' = combos
               /\ mxRun' = [k \in 1..Len(combos) |->
                              [pc |-> MxFirstPc(k, par), res |-> <<>>]]
               /\ IF combos = <<>>
                  THEN mxPc' = "done" /\ mxStatus' = "returned"
                       /\ mxSummary' = MxSummary(combos, mxResults)
                  ELSE mxPc' = "running" /\ UNCHANGED <<mxStatus, mxSummary>>
  /\ UNCHANGED <<matrixPresent, matrix, mxResults, mxAtFail, manifestVars, calls,
                 upVars, testVars, chaosVars, envVars>>

MxTasks == 1..Len(mxRun)

MxAllDone(r) == \A k \in 1..Len(r) : r[k].pc = "done"

RECURSIVE MxFlat(_)
\* results.push(...allResults)
MxFlat(r) == IF r = <<>> THEN <<>> ELSE Head(r).res \o MxFlat(Tail(r))

\* what `npm test` can do: exit 0 and write nothing to stderr, exit 0 and
\* write to stderr, or exit non-zero (execAsync rejects)
TestOutcomes == {"clean", "stderr", "nonzero"}

\* the record runCombination returns: status: stderr ? "failed" : "passed"
ComboResult(k, outcome) ==
  [combination |-> combinations[k], branch |-> MatrixAlias(combinations[k]),
   status |-> IF outcome = "stderr" THEN "failed" ELSE "passed"]

\* the record the catch of the sequential loop pushes
ComboError(k) ==
  [combination |-> combinations[k], branch |-> "", status |-> "error"]

\* What a step of runCombination k that leaves the call as t does to the
\* handler.  Sequential: the loop pushes the record of a call that ended
\* (the catch turns a throw into an error record) and breaks on a failure
\* unless continue_on_failure; parallel: Promise.all resolves when every call
\* has, and rejects at the first throw.
MxAdvance(k, t) ==
  LET ended == t.pc \in {"done", "threw"}
      rec == IF t.pc = "threw" THEN <<ComboError(k)>> ELSE t.res
      bad == t.pc = "threw" \/ (t.res # <<>> /\ t.res[1].status = "failed")
      stop == bad /\ ~mxContinue
      r1 == [mxRun EXCEPT ![k] = t]
      r2 == IF ~mxParallel /\ ended /\ ~stop /\ k < Len(mxRun)
            THEN [r1 EXCEPT ![k + 1].pc = "branch"]
            ELSE r1
  IN /\ mxRun' = r2
     /\ mxAtFail' = IF mxAtFail = <<>> /\ ended /\ bad THEN r2 ELSE mxAtFail
     /\ IF mxPc # "running"
        THEN UNCHANGED <<mxPc, mxStatus, mxResults, mxSummary>>
        ELSE IF mxParallel
        THEN IF t.pc = "threw"
             THEN mxPc' = "done" /\ mxStatus' = "rejected" /\ UNCHANGED <<mxResults, mxSummary>>
             ELSE IF MxAllDone(r2)
             THEN mxPc' = "done" /\ mxStatus' = "returned" /\ mxResults' = MxFlat(r2)
                  /\ mxSummary' = MxSummary(combinations, MxFlat(r2))
             ELSE UNCHANGED <<mxPc, mxStatus, mxResults, mxSummary>>
        ELSE IF ended
        THEN /\ mxResults' = mxResults \o rec
             /\ IF stop \/ k = Len(mxRun)
                THEN mxPc' = "done" /\ mxStatus' = "returned"
                     /\ mxSummary' = MxSummary(combinations, mxResults \o rec)
                ELSE UNCHANGED <<mxPc, mxStatus, mxSummary>>
        ELSE UNCHANGED <<mxPc, mxStatus, mxResults, mxSummary>>

\* the variables integration_matrix leaves alone
mxFrame ==
  <<manifestVars, calls, upVars, envVars, testsPresent, tests, tPc, tParallel,
    tPrefix, suitesToRun, run, results, tStatus, tSummary, baseline, ranIn, chPc, chArgs,
    chCheckpoint, chCalls, chReport, chBefore, injections, now, checkpoints>>

\* execVers(`branch --alias matrix-${name}`): the platform forks the
\* checked-out context, or fails
MxBranch(k) ==
  /\ mxRun[k].pc = "branch"
  /\ branchReqs' = branchReqs \cup
       {[alias |-> MatrixAlias(combinations[k]), baseline |-> baseline]}
  /\ \E ok \in BOOLEAN :
       parent' = IF ok THEN Put(parent, MatrixAlias(combinations[k]), head) ELSE parent
  /\ MxAdvance(k, [mxRun[k] EXCEPT !.pc = "checkout"])
  /\ UNCHANGED <<matrixPresent, matrix, mxFilter, mxParallel, mxContinue,
                 combinations, head, status, mxFrame>>

\* execVers(`checkout matrix-${name}`): the platform switches the checked-out
\* context to the branch, or fails; then the templates of manifest.services
\* are rewritten in memory
MxCheckout(k) ==
  /\ mxRun[k].pc = "checkout"
  /\ \E ok \in BOOLEAN :
       /\ ok => MatrixAlias(combinations[k]) \in DOMAIN parent
       /\ head' = IF ok THEN MatrixAlias(combinations[k]) ELSE head
  /\ MxAdvance(k, [mxRun[k] EXCEPT !.pc = "restart"])
  /\ UNCHANGED <<matrixPresent, matrix, mxFilter, mxParallel, mxContinue,
                 combinations, parent, branchReqs, status, mxFrame>>

\* execVers("service restart --all"): the platform restarts every service, or
\* fails
MxRestart(k) ==
  /\ mxRun[k].pc = "restart"
  /\ \E ok \in BOOLEAN :
       status' = IF ok THEN [s \in DOMAIN status |-> "running"] ELSE status
  /\ MxAdvance(k, [mxRun[k] EXCEPT !.pc = "test"])
  /\ UNCHANGED <<matrixPresent, matrix, mxFilter, mxParallel, mxContinue,
                 combinations, head, parent, branchReqs, mxFrame>>

\* execAsync("npm test"): the call returns its record, or throws
MxTest(k) ==
  /\ mxRun[k].pc = "test"
  /\ \E outcome \in TestOutcomes :
       MxAdvance(k, IF outcome = "nonzero"
                    THEN [mxRun[k] EXCEPT !.pc = "threw"]
                    ELSE [mxRun[k] EXCEPT !.pc = "done",
                                          !.res = <<ComboResult(k, outcome)>>])
  /\ UNCHANGED <<matrixPresent, matrix, mxFilter, mxParallel, mxContinue,
                 combinations, head, parent, branchReqs, status, mxFrame>>

MatrixNext ==
  \/ MatrixBegin
  \/ \E k \in MxTasks : MxBranch(k)
  \/ \E k \in MxTasks : MxCheckout(k)
  \/ \E k \in MxTasks : MxRestart(k)
  \/ \E k \in MxTasks : MxTest(k)

\* ------------------------------------------------------------------------
\* The environment of a test command
\* ------------------------------------------------------------------------

EnvKeys == {"K", "L"}

EnvValues == {"1", "2"}

\* env: values by key; an absent env spreads as {}
Envs == UNION {[S -> EnvValues] : S \in SUBSET EnvKeys}

\* the scenario: a branch variant with its env, or the single run of a suite
\* without variants
EnvBranches ==
  {[variant |-> FALSE, env |-> <<>>]} \cup {[variant |-> TRUE, env |-> e] : e \in Envs}

\* { ...a, ...b }
MergeEnv(a, b) ==
  [k \in DOMAIN a \cup DOMAIN b |-> IF k \in DOMAIN b THEN b[k] ELSE a[k]]

\* the variables runTest puts before the command: the merged env for a branch
\* variant (`${envStr} ${suiteConfig.command}`), none for the single run
\* (suiteConfig.command alone)
CommandEnv(suiteEnv, branch) ==
  IF branch.variant THEN MergeEnv(suiteEnv, branch.env) ELSE <<>>

EnvInit ==
  /\ ePc = "idle"
  /\ eUsed = <<>>

\* runTest runs the test command of the scenario
RunCommand ==
  /\ ePc = "idle"
  /\ eUsed' = CommandEnv(eSuiteEnv, eBranch)
  /\ ePc' = "ran"
  /\ UNCHANGED <<eSuiteEnv, eBranch, manifestVars, calls, upVars, testVars,
                 chaosVars, matrixVars>>

\* ------------------------------------------------------------------------
\* integration_init, integration_add_service, integration_remove_service
\* ------------------------------------------------------------------------

\* the templates of integration_init that the model draws from
InitTemplates == {"blank", "microservices"}

\* manifest.services as integration_init writes it: no entry of a project
\* template has a depends_on
InitServices(templateName) ==
  IF templateName = "microservices"
  THEN [s \in {"kafka", "postgres", "mongodb", "redis"} |-> <<>>]
  ELSE <<>>

\* the service argument of integration_add_service: `name` or `name@version`
ServiceSpecs ==
  {[name |-> "postgres", version |-> "15"], [name |-> "kafka", version |-> "3"],
   [name |-> "zookeeper", version |-> ""]}

\* the alias argument: omitted (""), or an alias
AliasArgs == {"", "mq"}

\* the names a service of the manifest can have
ServiceKeys == {"postgres", "kafka", "zookeeper", "mq", "mongodb", "redis"}

\* SERVICE_TEMPLATES[serviceName] || {}, reduced to its depends_on: only the
\* kafka template has one
TemplateDependsOn(serviceName) ==
  IF serviceName = "kafka" THEN <<"zookeeper">> ELSE <<>>

\* a function as f, without x
Without(f, x) == [y \in DOMAIN f \ {x} |-> f[y]]

\* integration_init: writes the manifest unless there is one
IntegrationInit ==
  /\ \E templateName \in InitTemplates :
       IF manifestPresent
       THEN UNCHANGED <<manifestPresent, services>>
       ELSE /\ manifestPresent' = TRUE
            /\ services' = InitServices(templateName)
  /\ UNCHANGED <<calls, upVars, testVars, chaosVars, matrixVars, envVars>>

\* integration_add_service: manifest.services[serviceAlias] = serviceConfig
AddService ==
  /\ \E service \in ServiceSpecs, alias \in AliasArgs :
       IF ~manifestPresent
       THEN UNCHANGED services
       ELSE services' = Put(services, IF alias # "" THEN alias ELSE service.name,
                            TemplateDependsOn(service.name))
  /\ UNCHANGED <<manifestPresent, calls, upVars, testVars, chaosVars, matrixVars,
                 envVars>>

\* integration_remove_service: delete manifest.services[service]
RemoveService ==
  /\ \E service \in ServiceKeys :
       IF ~manifestPresent \/ service \notin DOMAIN services
       THEN UNCHANGED services
       ELSE services' = Without(services, service)
  /\ UNCHANGED <<manifestPresent, calls, upVars, testVars, chaosVars, matrixVars,
                 envVars>>

ManifestNext ==
  \/ IntegrationInit
  \/ AddService
  \/ RemoveService

\* no matrix in the manifest, and no test command run
OtherInit ==
  /\ matrixPresent = FALSE
  /\ matrix = <<>>
  /\ MatrixInit
  /\ eSuiteEnv = <<>>
  /\ eBranch = [variant |-> FALSE, env |-> <<>>]
  /\ EnvInit

\* the state in which integration_test is called
SpecTestInit ==
  /\ manifestPresent \in BOOLEAN
  /\ services = [s \in Declared |-> <<>>]
  /\ testsPresent \in BOOLEAN
  /\ tests \in TestManifests
  /\ (~(manifestPresent /\ testsPresent) => tests = <<>>)
  /\ (~manifestPresent => ~testsPresent)
  /\ calls = <<>>
  /\ UpInit
  /\ TestInit
  /\ status = [s \in ChaosTargets |-> "running"]
  /\ ChaosInit
  /\ OtherInit

SpecTest == SpecTestInit /\ [][TestNext]_vars

\* the state in which integration_up is called: a manifest on disk or none
SpecUpInit ==
  /\ manifestPresent \in BOOLEAN
  /\ services \in Manifests
  /\ (~manifestPresent => services = [s \in Declared |-> <<>>])
  /\ calls = <<>>
  /\ UpInit
  /\ testsPresent = FALSE
  /\ tests = <<>>
  /\ TestInit
  /\ status = [s \in ChaosTargets |-> "running"]
  /\ ChaosInit
  /\ OtherInit

SpecUp == SpecUpInit /\ [][UpNext]_vars

\* the state in which the chaos tools are called: every service of the
\* environment is running or stopped
SpecChaosInit ==
  /\ manifestPresent = TRUE
  /\ services = [s \in Declared |-> <<>>]
  /\ calls = <<>>
  /\ UpInit
  /\ testsPresent = FALSE
  /\ tests = <<>>
  /\ TestInit
  /\ status \in [ChaosTargets -> {"running", "stopped"}]
  /\ ChaosInit
  /\ OtherInit

SpecChaos == SpecChaosInit /\ [][ChaosNext]_vars

\* the states integration_init, integration_add_service and
\* integration_remove_service do not touch
QuietInit ==
  /\ calls = <<>>
  /\ UpInit
  /\ testsPresent = FALSE
  /\ tests = <<>>
  /\ TestInit
  /\ status = [s \in ChaosTargets |-> "running"]
  /\ ChaosInit

\* the number of elements of the cartesian product of the version lists
RECURSIVE ProductSize(_)
ProductSize(mx) ==
  IF mx = <<>> THEN 1 ELSE Len(Head(mx).versions) * ProductSize(Tail(mx))

\* the state in which generate is applied: any manifest, with or without a
\* matrix
SpecGenerateInit ==
  /\ manifestPresent \in BOOLEAN
  /\ services = [s \in Declared |-> <<>>]
  /\ QuietInit
  /\ matrixPresent \in BOOLEAN
  /\ matrix \in Matrices
  /\ (~manifestPresent => ~matrixPresent)
  /\ (~matrixPresent => matrix = <<>>)
  /\ MatrixInit
  /\ eSuiteEnv = <<>>
  /\ eBranch = [variant |-> FALSE, env |-> <<>>]
  /\ EnvInit

SpecGenerate == SpecGenerateInit /\ [][MatrixBegin]_vars

\* the state in which integration_matrix is called and run to its end: a
\* manifest with one of RunMatrices, or without a matrix
SpecMatrixInit ==
  /\ manifestPresent \in BOOLEAN
  /\ services = [s \in Declared |-> <<>>]
  /\ QuietInit
  /\ matrixPresent \in BOOLEAN
  /\ matrix \in RunMatrices
  /\ (~manifestPresent => ~matrixPresent)
  /\ (~matrixPresent => matrix = <<>>)
  /\ MatrixInit
  /\ eSuiteEnv = <<>>
  /\ eBranch = [variant |-> FALSE, env |-> <<>>]
  /\ EnvInit

SpecMatrix == SpecMatrixInit /\ [][MatrixNext]_vars

\* the state in which runTest runs the command of a scenario
SpecEnvInit ==
  /\ manifestPresent = TRUE
  /\ services = [s \in Declared |-> <<>>]
  /\ QuietInit
  /\ matrixPresent = FALSE
  /\ matrix = <<>>
  /\ MatrixInit
  /\ eSuiteEnv \in Envs
  /\ eBranch \in EnvBranches
  /\ EnvInit

SpecEnv == SpecEnvInit /\ [][RunCommand]_vars

\* a directory without a manifest
SpecManifestInit ==
  /\ manifestPresent = FALSE
  /\ services = <<>>
  /\ QuietInit
  /\ OtherInit

SpecManifest == SpecManifestInit /\ [][ManifestNext]_vars

\* ------------------------------------------------------------------------
\* The dependency graph of the manifest
\* ------------------------------------------------------------------------

\* svcConfig.depends_on || [] ; a name with no services entry has none
DepsOf(s) == IF s \in Declared THEN Range(services[s]) ELSE {}

RECURSIVE DepClosure(_)
DepClosure(S) ==
  LET T == S \cup UNION {DepsOf(x) : x \in S}
  IN IF T = S THEN S ELSE DepClosure(T)

\* the direct and transitive dependencies of s
TransDeps(s) == DepClosure(DepsOf(s))

OnCycle(s) == s \in TransDeps(s)

Cyclic == \E s \in Declared : OnCycle(s)

\* every depends_on entry names a declared service
NoDangling == \A s \in Declared : DepsOf(s) \subseteq Declared

\* a valid manifest: no dangling reference and no cycle
ValidGraph == NoDangling /\ ~Cyclic

CallIdx == 1..Len(calls)

IsStart(i, s) == calls[i].cmd = "start" /\ calls[i].arg = s

IsHealth(i, s) == calls[i].cmd = "health" /\ calls[i].arg = s

UpReturned == upPc = "done" /\ manifestPresent

\* ------------------------------------------------------------------------
\* Claims about integration_up
\* ------------------------------------------------------------------------

\* C4: for an acyclic manifest (without dangling references), every start
\* request for a service is preceded by a start request for each of its direct
\* and transitive dependencies.
C4_DependenciesStartFirst ==
  ValidGraph =>
    \A i \in CallIdx : calls[i].cmd = "start" =>
      \A d \in TransDeps(calls[i].arg) : \E j \in 1..(i - 1) : IsStart(j, d)

\* s and t depend on each other
MutualDeps(s, t) == s # t /\ s \in TransDeps(t) /\ t \in TransDeps(s)

\* C5: on a manifest in which two services depend on each other, a call that
\* requests one of them returns an error and reports no service of the cycle
\* as started.
C5_CycleIsAnError ==
  (/\ UpReturned
   /\ NoDangling
   /\ \E s \in Range(upReq), t \in Declared : MutualDeps(s, t)) =>
    /\ upStatus = "error"
    /\ \A s \in Declared : OnCycle(s) => ~Contains(started, s)

\* C6: once the start of a dependency has failed, no start request is sent for
\* a service that depends on it, and a requested dependent is reported failed.
C6_FailedDependencyBlocks ==
  ValidGraph => \A i \in CallIdx : \A d \in AllNames :
    (IsStart(i, d) /\ ~calls[i].ok) =>
      /\ \A j \in CallIdx : (j > i /\ calls[j].cmd = "start") => d \notin DepsOf(calls[j].arg)
      /\ UpReturned =>
           \A s \in Range(upReq) : d \in DepsOf(s) => Contains(failed, s)

\* C7: a start request for a service is sent only after every dependency of
\* the service has answered a health check as healthy.
C7_StartGatedOnHealth ==
  ValidGraph => \A i \in CallIdx : calls[i].cmd = "start" =>
    \A d \in DepsOf(calls[i].arg) :
      \E j \in 1..(i - 1) : IsHealth(j, d) /\ calls[j].ok

\* C8: a service whose health check did not report healthy is not listed as
\* started, and the call does not return "success".
C8_UnhealthyIsReported ==
  UpReturned =>
    \A i \in CallIdx : \A s \in AllNames :
      (IsHealth(i, s) /\ ~calls[i].ok) =>
        ~Contains(started, s) /\ upStatus # "success"

\* C9: a checkpoint commit is sent only if every requested service was
\* started and every health check of it reported healthy.
C9_CheckpointOnlyWhenHealthy ==
  (\E i \in CallIdx : calls[i].cmd = "commit") =>
    \A s \in Range(upReq) :
      /\ Contains(started, s)
      /\ \E j \in CallIdx : IsHealth(j, s)
      /\ \A j \in CallIdx : IsHealth(j, s) => calls[j].ok

\* a start request for a dependency of s has failed
SomeDepFailed(s) ==
  \E d \in DepsOf(s) : \E i \in CallIdx : IsStart(i, d) /\ ~calls[i].ok

C1_ScenarioRunsInOwnBranch ==
  tParallel => \A r \in ranIn : r.ready => r.ctx = r.alias

\* C2: every scenario branch is forked from the context the baseline was
\* committed in, never from another scenario's branch (stated for the
\* sequential mode, where no interleaving is involved).
C2_BranchesForkFromBaseline ==
  ~tParallel => \A a \in DOMAIN parent : parent[a] = MainContext

\* C3: every branch-create request of a run is sent after the baseline commit
\* of the run has been sent and has returned.
C3_BaselineBeforeBranches ==
  \A r \in branchReqs : r.baseline \in {"committed", "failed"}

\* C3 witness: a run has committed its baseline and has sent a branch-create
\* request after it.
C3_Witness ==
  /\ baseline = "committed"
  /\ \E r \in branchReqs : r.baseline = "committed"

\* the handler has ended after calling runTest for suites the manifest defines
TestEnded ==
  /\ tPc = "done"
  /\ run # <<>>
  /\ \A k \in 1..Len(suitesToRun) : suitesToRun[k].defined

RECURSIVE ExpectedKeys(_)
\* the (suite, scenario) pairs of the suites that are run, in order
ExpectedKeys(entries) ==
  IF entries = <<>> THEN <<>>
  ELSE [j \in 1..Len(Head(entries).scen) |->
          [suite |-> Head(entries).suite, branch |-> Head(entries).scen[j].name]]
       \o ExpectedKeys(Tail(entries))

\* the (suite, scenario) pairs of a list of TestResults, in order
ResultKeys(res) ==
  [i \in 1..Len(res) |-> [suite |-> res[i].suite, branch |-> res[i].branch]]

HookFailed(kind) == \E r \in ranIn : r.kind = kind /\ ~r.ok

\* C11: when the handler has ended and the only failures were non-zero exits
\* of test commands and errors of before-hooks, it has returned, with one
\* result for every scenario of the suites that were run: no failure of one
\* scenario has kept a sibling from running and reporting.
C11_FailureDoesNotAbortSiblings ==
  (TestEnded /\ ~HookFailed("after")) =>
    /\ tStatus = "returned"
    /\ ResultKeys(results) = ExpectedKeys(suitesToRun)

\* C12: when integration_test returns, its results are exactly the scenarios
\* of the suites that were run, one TestResult each, none missing and none
\* twice.
C12_OneResultPerScenario ==
  tStatus = "returned" => ResultKeys(results) = ExpectedKeys(suitesToRun)

\* C12 witness: a parallel run over two suites has returned two results, one
\* of them failed.
C12_Witness ==
  /\ tStatus = "returned"
  /\ tParallel
  /\ Len(suitesToRun) = 2
  /\ Len(results) = 2
  /\ results[1].status = "failed"
  /\ results[2].status = "passed"

\* C13: when the handler has ended and an after-hook has failed (and no
\* before-hook has), it has returned and the results hold the TestResult of
\* the hook's scenario, with the status its test command gave it.
C13_AfterHookNeverChangesResult ==
  \A r \in ranIn :
    (TestEnded /\ r.kind = "after" /\ ~r.ok /\ ~HookFailed("before")) =>
      /\ tStatus = "returned"
      /\ \E i \in 1..Len(results), c \in ranIn :
           /\ results[i].suite = r.suite /\ results[i].branch = r.branch
           /\ c.kind = "command" /\ c.suite = r.suite /\ c.idx = r.idx
           /\ (results[i].status = "passed") <=> c.ok

\* the test commands run for scenario j of suite su
CommandRuns(su, j) ==
  {r \in ranIn : r.kind = "command" /\ r.suite = su /\ r.idx = j}

\* C14: the status recorded for a scenario is "passed" if and only if its own
\* test command exited with code 0, whatever the other scenarios did, and a
\* run that returns holds exactly two results for a suite with two variants.
C14_StatusFromOwnExitCode ==
  /\ \A k \in Tasks : \A j \in 1..Len(run[k].res) :
       /\ CommandRuns(suitesToRun[k].suite, j) # {}
       /\ \A c \in CommandRuns(suitesToRun[k].suite, j) :
            (run[k].res[j].status = "passed") <=> c.ok
  /\ tStatus = "returned" =>
       /\ results = Flat(run)
       /\ \A k \in Tasks : Len(suitesToRun[k].scen) = 2 =>
            Cardinality({i \in 1..Len(results) :
                           results[i].suite = suitesToRun[k].suite}) = 2

\* C14 witness: a parallel run of a suite with two variants has returned two
\* results, the first failed and the second passed.
C14_Witness ==
  /\ tStatus = "returned"
  /\ tParallel
  /\ Len(suitesToRun) = 1
  /\ Len(suitesToRun[1].scen) = 2
  /\ Len(results) = 2
  /\ results[1].status = "failed"
  /\ results[2].status = "passed"

\* the scenarios of the run, as (runTest, position) pairs
Positions ==
  {p \in (1..Len(suitesToRun)) \X (1..MaxBranches) :
     p[2] <= Len(suitesToRun[p[1]].scen)}

AliasOf(p) == suitesToRun[p[1]].scen[p[2]].alias

\* two scenarios of the run map to one branch alias
Collision == \E p, q \in Positions : p # q /\ AliasOf(p) = AliasOf(q)

\* C15: a run in which two scenarios map to one branch alias does not return
\* results after both scenarios have run their test command under that alias.
C15_AliasCollisionIsAnError ==
  ~ /\ Collision
    /\ tStatus = "returned"
    /\ \E c, d \in ranIn :
         /\ c.kind = "command" /\ d.kind = "command"
         /\ c.alias = d.alias
         /\ <<c.suite, c.idx>> # <<d.suite, d.idx>>

\* ------------------------------------------------------------------------
\* Claims about chaos_inject and chaos_recover
\* ------------------------------------------------------------------------

\* request i of the call is the chaos command of chaos_inject
IsChaosCommand(i) == chCalls[i].cmd \in {"stop", "pause", "execute"}

\* C16: whenever the chaos command of a chaos_inject call has been sent, the
\* commit of pre-chaos-<service>-<ts> for the same service was sent before it
\* and had already returned, whatever the action, duration and intensity.
C16_CheckpointBeforeChaos ==
  \A i \in 1..Len(chCalls) : IsChaosCommand(i) =>
    \E j \in 1..(i - 1) :
      /\ chCalls[j].cmd = "commit"
      /\ chCalls[j].tag = chCheckpoint
      /\ chCalls[j].tag[1] = "pre-chaos"
      /\ chCalls[j].tag[2] = chCalls[i].service
      /\ chCalls[j].state # "pending"

\* C16 witness: a memory-stress command with a duration and an intensity
\* above 100 has been sent after the commit returned.
C16_Witness ==
  /\ Len(chCalls) = 2
  /\ chCalls[1].cmd = "commit" /\ chCalls[1].state = "ok"
  /\ chCalls[2].kind = "memory-stress"
  /\ chCalls[2].timeout = "5m"
  /\ chCalls[2].intensity > 100

\* C17: when chaos_inject has returned after the platform applied its action,
\* the rollback_checkpoint it reports exists on the platform; and no chaos
\* command is sent after a pre-chaos commit that failed.
C17_ChaosIsReversible ==
  /\ \A i \in 1..Len(chCalls) : IsChaosCommand(i) =>
       \A j \in 1..(i - 1) : chCalls[j].cmd = "commit" => chCalls[j].state # "failed"
  /\ (chPc = "idle" /\ chReport.status = "injected" /\ chCalls[2].state = "ok") =>
       chReport.rollback_checkpoint \in DOMAIN checkpoints

\* C18: when chaos_recover has returned from a rollback to the checkpoint
\* that a chaos_inject(kill) of a running service reported, that service is
\* running (a rollback the platform failed although the checkpoint exists
\* is left out).
C18_KillThenRecoverRuns ==
  \A inj \in injections :
    (/\ chPc = "idle"
     /\ chReport.status = "recovered"
     /\ chReport.action = "rollback"
     /\ chReport.checkpoint = inj.tag
     /\ inj.action = "kill"
     /\ inj.wasRunning
     /\ ~(chCalls[1].state = "failed" /\ inj.tag \in DOMAIN checkpoints)) =>
      status[inj.service] = "running"

\* C19: when chaos_recover, called with a service and no checkpoint, has
\* returned, it has sent one request, the restart of that service, and every
\* other service has the status it had when the call began; the service
\* itself is running if the restart succeeded.
C19_RestartTouchesOnlyTheService ==
  (/\ chPc = "idle"
   /\ chArgs.tool = "recover"
   /\ chArgs.checkpoint = <<>>
   /\ chArgs.service # "") =>
    /\ Len(chCalls) = 1
    /\ chCalls[1].cmd = "restart"
    /\ chCalls[1].service = chArgs.service
    /\ \A t \in ChaosTargets \ {chArgs.service} : status[t] = chBefore[t]
    /\ chCalls[1].state = "ok" => status[chArgs.service] = "running"

\* C19 witness: after a chaos_inject stopped a service, a restart of
\* the other service has returned and the stopped service is still stopped.
C19_Witness ==
  /\ chPc = "idle"
  /\ chArgs.tool = "recover"
  /\ chArgs.checkpoint = <<>>
  /\ chArgs.service = "a"
  /\ chCalls[1].state = "ok"
  /\ status["a"] = "running"
  /\ status["b"] = "stopped"
  /\ \E inj \in injections : inj.service = "b" /\ inj.action = "kill" /\ inj.applied

\* C20: the intensity of a stress command (cpu-stress, memory-stress,
\* disk-fill) that chaos_inject sends is within 0..100, is the caller's value
\* when that is within 0..100, and is 80 when the caller gave none.
C20_IntensityBounded ==
  \A i \in 1..Len(chCalls) : chCalls[i].kind \in StressActions =>
    /\ chCalls[i].intensity \in 0..100
    /\ (chArgs.intensity.given /\ chArgs.intensity.v \in 0..100) =>
         chCalls[i].intensity = chArgs.intensity.v
    /\ ~chArgs.intensity.given => chCalls[i].intensity = 80

\* ------------------------------------------------------------------------
\* Claims about integration_matrix
\* ------------------------------------------------------------------------

\* generate has run on a manifest with a matrix
Generated == manifestPresent /\ matrixPresent /\ mxPc # "idle"

\* a combination as the assignment it is: dimension -> version
AsMap(combo) ==
  [k \in {combo[i].key : i \in 1..Len(combo)} |->
     combo[CHOOSE i \in 1..Len(combo) : combo[i].key = k].version]

\* the declared versions of the dimension at position i
Declares(mx, i) == Range(mx[i].versions)

\* the cartesian product of the version lists: every assignment of a
\* declared version to each dimension
Product(mx) ==
  {f \in [{mx[i].key : i \in 1..Len(mx)} -> Versions] :
     \A i \in 1..Len(mx) : f[mx[i].key] \in Declares(mx, i)}

CombinationSet == {AsMap(combinations[i]) : i \in 1..Len(combinations)}

FilterHits(i) ==
  /\ mxFilter.given
  /\ mxFilter.key = matrix[i].key
  /\ \E v \in Declares(matrix, i) : v.text = mxFilter.value

\* C22: with a filter {d: v} whose v is one of the declared versions of d,
\* the generated combinations are the elements of the cartesian product that
\* have d = v, each once.
C22_FilterSelectsSlice ==
  Generated => \A i \in 1..Len(matrix) : FilterHits(i) =>
    LET slice == {f \in Product(matrix) : f[matrix[i].key].text = mxFilter.value}
    IN /\ CombinationSet = slice
       /\ Len(combinations) = Cardinality(slice)

\* the pairs of a combination, sorted by dimension name
SortedByKey(combo) ==
  LET present == SelectSeq(DimOrder, LAMBDA k : \E i \in 1..Len(combo) : combo[i].key = k)
  IN [j \in 1..Len(present) |-> [key |-> present[j], version |-> AsMap(combo)[present[j]]]]

\* C25: the branch alias of every generated combination is the alias built
\* from its pairs sorted by dimension name, whatever order the manifest
\* declares the dimensions in.
C25_AliasFromSortedPairs ==
  Generated => \A i \in 1..Len(combinations) :
    MatrixAlias(combinations[i]) = MatrixAlias(SortedByKey(combinations[i]))

\* integration_matrix has ended on a manifest with a matrix
MatrixEnded == manifestPresent /\ matrixPresent /\ mxPc = "done"

\* the call of combination k had ended when the first failure happened
EndedAtFail(k) == mxAtFail[k].pc \in {"done", "threw"}

\* C23: with continue_on_failure false or unset, no runCombination call takes
\* a step after the first combination has failed or thrown, and the handler
\* returns the results of every combination that had been run by then.
C23_StopsAtFirstFailure ==
  (~mxContinue /\ mxAtFail # <<>>) =>
    /\ mxRun = mxAtFail
    /\ MatrixEnded =>
         /\ mxStatus = "returned"
         /\ \A k \in 1..Len(mxAtFail) : EndedAtFail(k) =>
              \E i \in 1..Len(mxResults) : mxResults[i].combination = combinations[k]

\* C24: with continue_on_failure=true, when the handler has ended it has
\* returned one result record per generated combination, in both modes.
C24_ContinueRunsEverything ==
  (mxContinue /\ MatrixEnded) =>
    /\ mxStatus = "returned"
    /\ Len(mxResults) = Len(combinations)
    /\ \A i \in 1..Len(mxResults) : mxResults[i].combination = combinations[i]

\* C26: every branch-create request of integration_matrix is sent after a
\* baseline was committed, and every branch is forked from the context that
\* baseline was committed in.
C26_MatrixBranchesFromBaseline ==
  /\ \A r \in branchReqs : r.baseline = "committed"
  /\ \A a \in DOMAIN parent : parent[a] = MainContext

\* ------------------------------------------------------------------------
\* Claims about the manifest
\* ------------------------------------------------------------------------

\* C27: when the manifest is missing, or has a dangling depends_on reference
\* or a dependency cycle, integration_up returns an error and has sent no
\* service-start and no commit request.
C27_InvalidManifestIsRejected ==
  (upPc = "done" /\ (~manifestPresent \/ ~ValidGraph)) =>
    /\ upStatus = "error"
    /\ \A i \in CallIdx : calls[i].cmd \notin {"start", "commit"}

\* C28: every depends_on entry of every service of the stored manifest names
\* a key of the manifest's services.
C28_DependsOnResolves ==
  manifestPresent =>
    \A s \in DOMAIN services : Range(services[s]) \subseteq DOMAIN services

\* the suites that were run and have no branch variants
SinglesRun ==
  {k \in 1..Len(suitesToRun) :
     \E j \in 1..Len(tests) :
       tests[j].name = suitesToRun[k].suite /\ ~HasVariants(tests[j])}

ResultsOf(su) == {i \in 1..Len(results) : results[i].suite = su}

\* C29 (as stated): when integration_test returns, every suite without branch
\* variants that was run has exactly one TestResult, and its branch is the
\* suite's name.
C29_SingleRunNamedAfterSuite ==
  tStatus = "returned" => \A k \in SinglesRun :
    /\ Cardinality(ResultsOf(suitesToRun[k].suite)) = 1
    /\ \A i \in ResultsOf(suitesToRun[k].suite) : results[i].branch = suitesToRun[k].suite

\* C29 (amended): when integration_test returns, every suite without branch
\* variants that was run has exactly one TestResult, and its branch is the
\* branch alias of the run, `${prefix}-${suite}`.
C29_SingleRunNamedByAlias ==
  tStatus = "returned" => \A k \in SinglesRun :
    /\ Cardinality(ResultsOf(suitesToRun[k].suite)) = 1
    /\ \A i \in ResultsOf(suitesToRun[k].suite) :
         results[i].branch = SingleAlias(tPrefix, suitesToRun[k].suite)

\* C29 witness: a run with the default prefix over one suite without
\* variants has returned its one result.
C29_Witness ==
  /\ tStatus = "returned"
  /\ tPrefix = "test"
  /\ SinglesRun = {1}
  /\ Len(results) = 1
  /\ results[1].branch = "test-s"

\* the value the claim gives key k: the branch's when the branch defines it,
\* otherwise the suite's
Effective(k) ==
  IF eBranch.variant /\ k \in DOMAIN eBranch.env THEN eBranch.env[k] ELSE eSuiteEnv[k]

\* C30: the test command of a scenario runs with every key of the suite's env
\* and of the branch's env, each with the branch's value when the branch
\* defines it and the suite's value otherwise, the single run of a suite
\* without variants included.
C30_EnvBranchOverSuite ==
  ePc = "ran" =>
    /\ DOMAIN eUsed = DOMAIN eSuiteEnv \cup DOMAIN eBranch.env
    /\ \A k \in DOMAIN eUsed : eUsed[k] = Effective(k)

\* ------------------------------------------------------------------------
\* Claims about the outputs
\* ------------------------------------------------------------------------

\* the results of a list with status st, in order
WithStatus(res, st) == SelectSeq(res, LAMBDA r : r.status = st)

\* C31: the summary integration_test returns is a function of the result
\* list: total is the number of results, passed the number with status
\* passed, failed the number with status failed, and aggregating the returned
\* list again gives the same summary.
C31_SummaryCountsResults ==
  tStatus = "returned" =>
    /\ tSummary.total = Len(results)
    /\ tSummary.passed = Len(WithStatus(results, "passed"))
    /\ tSummary.failed = Len(WithStatus(results, "failed"))
    /\ Summary(results) = tSummary

\* C31 witness: a run has returned two results, one that passed and one
\* that failed.
C31_Witness ==
  /\ tStatus = "returned"
  /\ Len(results) = 2
  /\ tSummary = [total |-> 2, passed |-> 1, failed |-> 1]

\* C32: the test command of a scenario is run only after the scenario's
\* branch was created and checked out successfully; a scenario whose branch
\* creation or checkout failed runs no command and records no passed result.
C32_CommandOnlyInReadyBranch ==
  \A p \in ranIn : p.kind = "command" => p.ready

\* the branch-create request of scenario j of entry k has been sent
BranchRequested(k, j) ==
  \E r \in branchReqs : r.alias = suitesToRun[k].scen[j].alias

\* the test command of scenario j of entry k has been run
CommandRan(k, j) ==
  \E p \in ranIn :
    p.kind = "command" /\ p.suite = suitesToRun[k].suite /\ p.idx = j

\* C33: with parallel=true the scenarios of a run are started together, the
\* branch variants of one suite included: no variant waits for a sibling to
\* finish, so by the time a variant's test command has run, the branch-create
\* request of every other variant of its suite has been sent.
C33_VariantsRunConcurrently ==
  (tParallel /\ tPc # "idle") =>
    \A k \in 1..Len(suitesToRun) : \A i, j \in 1..Len(suitesToRun[k].scen) :
      CommandRan(k, i) => BranchRequested(k, j)

\* runTest of entry k has sent the branch-create request of its scenario j
Started(k, j) ==
  /\ run[k].pc # "wait"
  /\ \/ run[k].b > j
     \/ run[k].b = j /\ run[k].pc # "branch"

\* the result of scenario j of entry k has been pushed
Recorded(k, j) == Len(run[k].res) >= j

\* scenario (k1, j1) is declared before scenario (k2, j2)
Before(k1, j1, k2, j2) == k1 < k2 \/ (k1 = k2 /\ j1 < j2)

RECURSIVE DeclaredOrder(_)
\* the scenarios of the run in declared order: suites in manifest order,
\* variants in list order
DeclaredOrder(entries) ==
  IF entries = <<>> THEN <<>>
  ELSE [j \in 1..Len(Head(entries).scen) |->
          [suite |-> Head(entries).suite, branch |-> Head(entries).scen[j].name]]
       \o DeclaredOrder(Tail(entries))

C35_StartedIsMemoized ==
  /\ \A i, j \in CallIdx :
       (calls[i].cmd = "start" /\ calls[j].cmd = "start" /\ calls[i].arg = calls[j].arg)
         => i = j
  /\ \A i, j \in 1..Len(started) : started[i] = started[j] => i = j
  /\ Range(started) \cap Range(failed) = {}

\* the place of version v in the declared list of dimension d
Place(d, v) == CHOOSE i \in 1..Len(matrix[d].versions) : matrix[d].versions[i] = v

\* combination c1 comes before c2 on an odometer whose first wheel is the
\* first declared dimension
OdometerLess(c1, c2) ==
  \E d \in 1..Len(matrix) :
    /\ \A e \in 1..(d - 1) : c1[e].version = c2[e].version
    /\ Place(d, c1[d].version) < Place(d, c2[d].version)

\* version v of dimension d is a value the filter leaves out: the filter
\* names the dimension and another value
FilteredOut(d, v) ==
  /\ mxFilter.given
  /\ mxFilter.key = matrix[d].key
  /\ mxFilter.value # ""
  /\ v.text # mxFilter.value

C37_AliasInjective ==
  Generated =>
    \A i, j \in 1..Len(combinations) :
      combinations[i] # combinations[j] =>
        MatrixAlias(combinations[i]) # MatrixAlias(combinations[j])

\* the sequential loop has stopped at a failure before the last combination
ShortCircuited == ~mxContinue /\ mxAtFail # <<>>

\* C38: in the output of integration_matrix, passed + failed is the number
\* of result records, and when no short-circuit occurred the number of result
\* records is total_combinations.
C38_MatrixSummaryAccountsForAll ==
  (MatrixEnded /\ mxStatus = "returned") =>
    /\ mxSummary.passed + mxSummary.failed = Len(mxResults)
    /\ ~ShortCircuited => Len(mxResults) = mxSummary.total_combinations

\* the call names a suite that manifest.tests does not define
UnknownSuiteCalled ==
  /\ tPc # "idle"
  /\ \E k \in 1..Len(suitesToRun) : ~suitesToRun[k].defined

\* C39: integration_test called with a suite name the manifest does not
\* define sends no commit and no branch-create request, and ends by returning
\* an error result.
C39_UnknownSuiteIsRejected ==
  UnknownSuiteCalled =>
    /\ baseline = "none"
    /\ branchReqs = {}
    /\ tPc = "done" => tStatus = "error"

\* C40: a chaos_recover call sends exactly one request, chosen by its
\* arguments: with a checkpoint only the rollback to it, also when a service
\* is given; with only a service only the restart of it; with neither it
\* sends nothing and returns an error.
C40_RecoverSendsOneRequest ==
  chArgs.tool = "recover" =>
    IF chArgs.checkpoint # <<>>
    THEN /\ Len(chCalls) = 1
         /\ chCalls[1].cmd = "rollback"
         /\ chCalls[1].tag = chArgs.checkpoint
    ELSE IF chArgs.service # ""
    THEN /\ Len(chCalls) = 1
         /\ chCalls[1].cmd = "restart"
         /\ chCalls[1].service = chArgs.service
    ELSE /\ chCalls = <<>>
         /\ chPc = "idle"
         /\ chReport.status = "error"

\* C40 witness: a chaos_recover call with a checkpoint and a service has
\* returned after its one request, the rollback.
C40_Witness ==
  /\ chPc = "idle"
  /\ chArgs.tool = "recover"
  /\ chArgs.checkpoint # <<>>
  /\ chArgs.service # ""
  /\ Len(chCalls) = 1
  /\ chCalls[1].cmd = "rollback"
  /\ chCalls[1].state = "ok"
  /\ chReport.status = "recovered"

====
